---------------------------- MODULE Spec2Model ----------------------------
(***************************************************************************)
(* A model of the Sora MCP server: the seven tools registered by          *)
(* registerTools (tools/index.ts), the server set-up (server-setup.ts)    *)
(* and the HTTP entry point (server.ts).                                   *)
(*                                                                         *)
(* Strings whose characters the code inspects (the size string, the path  *)
(* of the reference file) are sequences of one-character strings.  Every  *)
(* other text (a message, a command line) is the sequence of the pieces   *)
(* its template literal concatenates, so "contains" is membership of a    *)
(* piece.  An optional argument is a sequence of length 0 or 1.           *)
(***************************************************************************)
EXTENDS Integers, Sequences, FiniteSets, TLC

(***************************************************************************)
(* Bounds of the model.                                                    *)
(***************************************************************************)
\* Longest size string enumerated character by character.
MaxSizeLen == 3

(***************************************************************************)
(* Optional values and JavaScript truthiness.                              *)
(***************************************************************************)
None == <<>>

Some(v) == <<v>>

Present(o) == o # <<>>

\* if (s) for an optional string given as a sequence of characters:
\* undefined and the empty string are both falsy.
TruthyChars(o) == Present(o) /\ o[1] # <<>>

\* if (s) for an optional string given as one piece.
TruthyStr(o) == Present(o) /\ o[1] # ""

Range(s) == {s[i] : i \in 1..Len(s)}

(***************************************************************************)
(* Configuration: tools/index.ts lines 172-192.                            *)
(***************************************************************************)
SORA_API_BASE == "https://api.openai.com/v1"

\* '720x1280' and '1280x720', character by character.
ORIENTATION_SIZES ==
    [vertical  |-> <<"7", "2", "0", "x", "1", "2", "8", "0">>,
     landscape |-> <<"1", "2", "8", "0", "x", "7", "2", "0">>]

\* process.env.DOWNLOAD_DIR || join(homedir(), 'Downloads')
\* A path that is not inspected is the sequence of its pieces.
getDownloadDir(dir) ==
    IF TruthyStr(dir) THEN <<dir[1]>> ELSE <<"/home/user", "/", "Downloads">>

\* getApiKey: the key, or a throw when the variable is unset or empty.
getApiKey(key) ==
    IF TruthyStr(key)
    THEN [ok |-> TRUE, value |-> key[1]]
    ELSE [ok |-> FALSE,
          message |-> <<"OPENAI_API_KEY environment variable is required">>]

(***************************************************************************)
(* The size resolver: getVideoSize.                                        *)
(***************************************************************************)
\* A resolver that looks at the custom size before the orientation.
getVideoSizeSizeFirst(orientation, size) ==
    IF TruthyChars(size) THEN size[1]
    ELSE IF Present(orientation) THEN ORIENTATION_SIZES[orientation[1]]
    ELSE ORIENTATION_SIZES.vertical

\* A resolver whose default is landscape.
getVideoSizeDefaultLandscape(orientation, size) ==
    IF Present(orientation) THEN ORIENTATION_SIZES[orientation[1]]
    ELSE IF TruthyChars(size) THEN size[1]
    ELSE ORIENTATION_SIZES.landscape

getVideoSize(orientation, size) ==
    IF Present(orientation) THEN ORIENTATION_SIZES[orientation[1]]
    ELSE IF TruthyChars(size) THEN size[1]
    ELSE ORIENTATION_SIZES.vertical

(***************************************************************************)
(* String.prototype.split, parseInt, toLowerCase on character sequences.   *)
(***************************************************************************)
\* s.split(sep) for a one-character separator: the pieces between the
\* separators, empty pieces included; always at least one piece.
RECURSIVE SplitFrom(_, _, _, _)
SplitFrom(s, sep, i, cur) ==
    IF i > Len(s) THEN <<cur>>
    ELSE IF s[i] = sep THEN <<cur>> \o SplitFrom(s, sep, i + 1, <<>>)
    ELSE SplitFrom(s, sep, i + 1, Append(cur, s[i]))

Split(s, sep) == SplitFrom(s, sep, 1, <<>>)

Digits == {"0", "1", "2", "3", "4", "5", "6", "7", "8", "9"}

DigitVal(c) ==
    CASE c = "0" -> 0 [] c = "1" -> 1 [] c = "2" -> 2 [] c = "3" -> 3
      [] c = "4" -> 4 [] c = "5" -> 5 [] c = "6" -> 6 [] c = "7" -> 7
      [] c = "8" -> 8 [] c = "9" -> 9

\* The value of the longest run of digits of s that starts at position i,
\* given the value acc of the digits read so far.
RECURSIVE DigitRun(_, _, _)
DigitRun(s, i, acc) ==
    IF i > Len(s) \/ s[i] \notin Digits THEN acc
    ELSE DigitRun(s, i + 1, 10 * acc + DigitVal(s[i]))

RECURSIVE SkipSpace(_, _)
SkipSpace(s, i) ==
    IF i <= Len(s) /\ s[i] = " " THEN SkipSpace(s, i + 1) ELSE i

\* parseInt(s, 10): leading white space is skipped, one sign is read, then
\* the longest run of digits; whatever follows is ignored.  NaN when no
\* digit is read.
parseInt(s) ==
    LET i == SkipSpace(s, 1)
        signed == i <= Len(s) /\ s[i] \in {"-", "+"}
        j == IF signed THEN i + 1 ELSE i
        mag == DigitRun(s, j, 0)
    IN  IF j > Len(s) \/ s[j] \notin Digits
        THEN [nan |-> TRUE, value |-> 0]
        ELSE [nan |-> FALSE,
              value |-> IF signed /\ s[i] = "-" THEN 0 - mag ELSE mag]

\* The size parsing of the create-video handler (lines 263-274): the target
\* width and height, or the message of the Error it throws.
parseSize(finalSize) ==
    LET sizeParts == Split(finalSize, "x")
    IN  IF Len(sizeParts) # 2
        THEN [ok |-> FALSE, width |-> 0, height |-> 0,
              message |-> <<"Invalid size format: ">> \o finalSize
                  \o <<". Expected format: \"widthxheight\" (e.g., \"720x1280\")">>]
        ELSE LET targetWidth == parseInt(sizeParts[1])
                 targetHeight == parseInt(sizeParts[2])
             IN  IF targetWidth.nan \/ targetHeight.nan
                    \/ targetWidth.value <= 0 \/ targetHeight.value <= 0
                 THEN [ok |-> FALSE, width |-> 0, height |-> 0,
                       message |-> <<"Invalid size dimensions: ">> \o finalSize
                           \o <<". Width and height must be positive numbers.">>]
                 ELSE [ok |-> TRUE, width |-> targetWidth.value,
                       height |-> targetHeight.value, message |-> <<>>]

ToLowerChar(c) ==
    CASE c = "P" -> "p" [] c = "N" -> "n" [] c = "G" -> "g" [] c = "M" -> "m"
      [] c = "O" -> "o" [] c = "V" -> "v" [] c = "J" -> "j" [] c = "W" -> "w"
      [] c = "E" -> "e" [] c = "B" -> "b" [] c = "A" -> "a"
      [] OTHER -> c

toLowerCase(s) == [i \in 1..Len(s) |-> ToLowerChar(s[i])]

(***************************************************************************)
(* Paths: resolve and basename of node:path, for the paths of the model    *)
(* (no "." or ".." segment, no trailing slash).                            *)
(***************************************************************************)
Cwd == <<"/", "w">>

resolve(p) == IF p # <<>> /\ p[1] = "/" THEN p ELSE Cwd \o <<"/">> \o p

basename(p) == LET parts == Split(p, "/") IN parts[Len(parts)]

(***************************************************************************)
(* MIME detection of the create-video handler (lines 253-261).             *)
(***************************************************************************)
\* filename.toLowerCase().split('.').pop()
extOf(filename) ==
    LET parts == Split(toLowerCase(filename), ".") IN parts[Len(parts)]

mimeTypeOf(filename) ==
    LET ext == extOf(filename)
    IN  IF ext = <<"p", "n", "g">> THEN "image/png"
        ELSE IF ext = <<"w", "e", "b", "p">> THEN "image/webp"
        ELSE IF ext = <<"j", "p", "g">> \/ ext = <<"j", "p", "e", "g">>
        THEN "image/jpeg"
        ELSE IF ext = <<"m", "p", "4">> THEN "video/mp4"
        ELSE IF ext = <<"m", "o", "v">> THEN "video/quicktime"
        ELSE IF ext = <<"w", "e", "b", "m">> THEN "video/webm"
        ELSE "image/jpeg"

\* mimeType.startsWith('image/')
IsImageMime(m) == m \in {"image/png", "image/webp", "image/jpeg"}


(***************************************************************************)
(* The remote service and the file system are the environment: every       *)
(* await of the handlers completes with one of these outcomes.             *)
(***************************************************************************)
VideoIds == {"vid_1", "vid_2"}

RemoteStatus == {"completed", "in_progress", "failed"}

HttpStatuses == {200, 404, 500}

\* response.json() of a body: an object (its fields), null, or a SyntaxError.
JobBody(s) ==
    [text |-> <<"{\"id\":\"vid_1\",\"status\":\"", s, "\"}">>,
     json |-> "object", fields |-> [id |-> "vid_1", status |-> s],
     bytes |-> "json-bytes"]

DeletedBody ==
    [text |-> <<"{\"id\":\"vid_9\",\"object\":\"video.deleted\",\"deleted\":true}">>,
     json |-> "object",
     fields |-> [id |-> "vid_9", object |-> "video.deleted", deleted |-> TRUE],
     bytes |-> "json-bytes"]

NotDeletedBody ==
    [text |-> <<"{\"deleted\":false,\"message\":\"deletion pending\"}">>,
     json |-> "object",
     fields |-> [deleted |-> FALSE, message |-> <<"deletion pending">>],
     bytes |-> "json-bytes"]

NullBody == [text |-> <<"null">>, json |-> "null", bytes |-> "json-bytes"]

TextBody == [text |-> <<"Not Found">>, json |-> "invalid", bytes |-> "mp4-bytes"]

Bodies ==
    {JobBody(s) : s \in RemoteStatus}
        \cup {DeletedBody, NotDeletedBody, NullBody, TextBody}

\* fetch rejects (no connection), or resolves with a response.
FetchRejected == [kind |-> "reject", message |-> <<"fetch failed">>]

Responses ==
    {FetchRejected}
        \cup {[kind |-> "response", status |-> st, body |-> b] :
                st \in HttpStatuses, b \in Bodies}

\* response.ok
ResponseOk(resp) == resp.status >= 200 /\ resp.status <= 299

(***************************************************************************)
(* What a handler step yields: it returns an envelope, or throws an Error  *)
(* with a message.                                                         *)
(***************************************************************************)
Ret(env) == [k |-> "return", envelope |-> env]

Throw(msg) == [k |-> "throw", message |-> msg]

\* A text block: the pieces of a template literal followed by the
\* JSON.stringify text of at most one value.
PlainText(pieces) == [template |-> pieces, json |-> <<>>]

JsonText(value) == [template |-> <<>>, json |-> <<value>>]

SuccessEnvelope(text, output) ==
    [content |-> <<[type |-> "text", text |-> text]>>,
     structuredContent |-> output]

ErrorEnvelope(pieces) ==
    [content |-> <<[type |-> "text", text |-> PlainText(pieces)]>>,
     isError |-> TRUE]

\* try { ... } catch (error) { return { content: [...], isError: true } }
tryCatch(prefix, out) ==
    IF out.k = "throw"
    THEN Ret(ErrorEnvelope(<<prefix>> \o out.message))
    ELSE out

JsonNull == [null |-> TRUE]

\* An error message that leaves the response body out.
apiErrorNoBody(label, resp) == <<label, ToString(resp.status)>>

\* `${label}${response.status} - ${errorText}`
apiError(label, resp) ==
    <<label, ToString(resp.status), " - ">> \o resp.body.text

\* The shared tail of create, remix, get-status and list: check response.ok,
\* parse the JSON, return it as text and as structuredContent.
rawJsonResult(resp) ==
    IF resp.kind = "reject" THEN Throw(resp.message)
    ELSE IF ~ResponseOk(resp) THEN Throw(apiError("Sora API error: ", resp))
    ELSE IF resp.body.json = "invalid"
    THEN Throw(<<"Unexpected token in JSON">>)
    ELSE LET output == IF resp.body.json = "null" THEN JsonNull
                       ELSE resp.body.fields
         IN  Ret(SuccessEnvelope(JsonText(output), output))

Bearer(apiKey) == <<"Bearer ", apiKey>>

Request(method, url, apiKey, body) ==
    [method |-> method, url |-> url, auth |-> Bearer(apiKey), body |-> body]

(***************************************************************************)
(* State.                                                                  *)
(***************************************************************************)
VARIABLES
    proc,     \* "starting", "running" or "exited": the server process
    envKey,   \* process.env.OPENAI_API_KEY, optional
    envDir,   \* process.env.DOWNLOAD_DIR, optional
    args,     \* the arguments of the tool call in progress, with its tool
    locals,   \* the local variables of the handler
    pc,       \* the await the handler is suspended at, "idle" or "done"
    reqs,     \* the requests the call has sent to the remote service
    resps,    \* the outcomes of those requests
    fsops,    \* the file-system and image operations the call has started
    result,   \* how the handler's promise settled, optional
    sdk,      \* how the MCP SDK of the build routes a result (see below)
    serverTransport,  \* the transport the one McpServer is connected to, or 0
    http,     \* the POST /mcp requests of the HTTP entry point
    delivered \* what has been written to each request's HTTP response

vars ==
    <<proc, envKey, envDir, args, locals, pc, reqs, resps, fsops, result,
      sdk, serverTransport, http, delivered>>

toolVars == <<args, locals, pc, reqs, resps, fsops, result>>

httpVars == <<sdk, serverTransport, http, delivered>>

NoArgs == [tool |-> "none"]

NoLocals == [apiKey |-> ""]

\* Longest run of POST /mcp requests modelled.
MaxHttpRequests == 2

HttpIds == 1..MaxHttpRequests

NewHttp == [pc |-> "new", open |-> FALSE]

InitProcess ==
    /\ proc = "starting"
    /\ envKey \in {None, Some("sk-test")}
    /\ envDir \in {None, Some("/data/videos")}
    /\ args = NoArgs
    /\ locals = NoLocals
    /\ pc = "idle"
    /\ reqs = <<>>
    /\ resps = <<>>
    /\ fsops = <<>>
    /\ result = None
    /\ serverTransport = 0
    /\ http = [r \in HttpIds |-> NewHttp]
    /\ delivered = [r \in HttpIds |-> <<>>]

\* The server on stdio: one transport, connected once (stdio-server.ts).
Init == InitProcess /\ sdk = "captured"

\* A set-up that registers the tools without looking at the key.
createServerNoCheck ==
    /\ proc = "starting"
    /\ proc' = "running"
    /\ UNCHANGED <<envKey, envDir, toolVars, httpVars>>

\* createServer (server-setup.ts): exit(1) without the key, else the tools
\* are registered and the server runs.
createServer ==
    /\ proc = "starting"
    /\ proc' = IF TruthyStr(envKey) THEN "running" ELSE "exited"
    /\ UNCHANGED <<envKey, envDir, toolVars, httpVars>>

\* One call is modelled at a time: the next begins once the caller has the
\* result of the one before.
CanCall == proc = "running" /\ pc = "idle"

\* The handler settles: its promise is fulfilled or rejected.
Settle(out) ==
    /\ pc' = "done"
    /\ result' = Some(out)

\* A call begins: nothing of the previous call is kept.
Begin(a, l) ==
    /\ args' = a
    /\ locals' = l
    /\ resps' = <<>>

Env == <<proc, envKey, envDir, httpVars>>

\* The settled result is handed to the caller; the handler's frame is gone.
Return ==
    /\ pc = "done"
    /\ pc' = "idle"
    /\ args' = NoArgs
    /\ locals' = NoLocals
    /\ reqs' = <<>>
    /\ resps' = <<>>
    /\ fsops' = <<>>
    /\ result' = None
    /\ UNCHANGED Env

(***************************************************************************)
(* Tool 1: create-video (lines 228-338).                                   *)
(***************************************************************************)
SizeAlphabet == {"0", "2", "x", "."}

\* Every string over the alphabet of at most MaxSizeLen characters, and some
\* longer ones: a valid custom size, "12.5x30", "720pxx1280", "-2x2", "2x-2".
SizeStrings ==
    UNION {[1..k -> SizeAlphabet] : k \in 0..MaxSizeLen}
        \cup {<<"1", "2", "8", "0", "x", "7", "2", "0">>,
              <<"1", "2", ".", "5", "x", "3", "0">>,
              <<"7", "2", "0", "p", "x", "x", "1", "2", "8", "0">>,
              <<"-", "2", "x", "2">>,
              <<"2", "x", "-", "2">>}

Orientations == {None, Some("vertical"), Some("landscape")}

\* Paths of reference files: a.png, a.PNG, a.webp, a.jpg, a.jpeg, a.gif,
\* a.mp4, a.MOV, a.webm, /v/a.b.mp4, d.mp4/a (a directory with a dot),
\* mp4 (a file named mp4, no dot), mov, and the empty string.
ReferencePaths ==
    {<<"a", ".", "p", "n", "g">>,
     <<"a", ".", "P", "N", "G">>,
     <<"a", ".", "w", "e", "b", "p">>,
     <<"a", ".", "j", "p", "g">>,
     <<"a", ".", "j", "p", "e", "g">>,
     <<"a", ".", "g", "i", "f">>,
     <<"a", ".", "m", "p", "4">>,
     <<"a", ".", "M", "O", "V">>,
     <<"a", ".", "w", "e", "b", "m">>,
     <<"/", "v", "/", "a", ".", "b", ".", "m", "p", "4">>,
     <<"d", ".", "m", "p", "4", "/", "a">>,
     <<"m", "p", "4">>,
     <<"m", "o", "v">>,
     <<>>}

CreateArgs ==
    [tool : {"create-video"}, prompt : {"a cat"}, model : {None},
     seconds : {None}, orientation : Orientations,
     size : {None} \cup {Some(z) : z \in SizeStrings},
     input_reference : {None} \cup {Some(r) : r \in ReferencePaths}]

\* The default of an optional parameter: model = 'sora-2', seconds = '4'.
Default(o, d) == IF Present(o) THEN o[1] ELSE d

\* fetch(`${SORA_API_BASE}/videos`, { method: 'POST', headers, body: formData })
CreateRequest(l) ==
    Request("POST", <<SORA_API_BASE, "/videos">>, l.apiKey, Some(l.formData))

\* The synchronous head of the handler, up to its first await: the stat of
\* the reference file, or the fetch when there is no reference.
CreateVideoBegin(a) ==
    /\ CanCall
    /\ LET key == getApiKey(envKey)
           finalSize == getVideoSize(a.orientation, a.size)
           formData == [model |-> Default(a.model, "sora-2"),
                        prompt |-> a.prompt,
                        seconds |-> Default(a.seconds, "4"),
                        size |-> finalSize,
                        input_reference |-> None]
       IN  IF ~key.ok
           THEN /\ Begin(a, NoLocals)
                /\ reqs' = <<>>
                /\ fsops' = <<>>
                /\ Settle(tryCatch("Error creating video: ", Throw(key.message)))
           ELSE LET l == [apiKey |-> key.value, finalSize |-> finalSize,
                          formData |-> formData]
                IN  IF TruthyChars(a.input_reference)
                    THEN LET filePath == resolve(a.input_reference[1])
                         IN  /\ Begin(a, [l EXCEPT !.apiKey = key.value]
                                            @@ [filePath |-> filePath])
                             /\ reqs' = <<>>
                             /\ fsops' = <<[op |-> "stat", path |-> filePath]>>
                             /\ pc' = "create:stat"
                             /\ result' = None
                    ELSE /\ Begin(a, l)
                         /\ reqs' = <<CreateRequest(l)>>
                         /\ fsops' = <<>>
                         /\ pc' = "create:fetch"
                         /\ result' = None
    /\ UNCHANGED Env

\* A catch that passes the cause on without the wrapping text.
CreateFileErrorUnwrapped(msg) ==
    tryCatch("Error creating video: ", Throw(msg))

\* catch (fileError) { throw new Error(`Failed to process input_reference
\* file: ${errorMessage}`) }, then the outer catch.
CreateFileError(msg) ==
    tryCatch("Error creating video: ",
             Throw(<<"Failed to process input_reference file: ">> \o msg))

\* A handler that validates the size only on the image branch.
CreateAfterStatImageOnly(exists) ==
    /\ pc = "create:stat"
    /\ IF ~exists
       THEN /\ Settle(CreateFileError(<<"ENOENT: no such file or directory">>))
            /\ UNCHANGED <<locals, fsops>>
       ELSE LET filename == basename(locals.filePath)
                mimeType == mimeTypeOf(filename)
                parsed == parseSize(locals.finalSize)
                l == locals @@ [filename |-> filename, mimeType |-> mimeType]
            IN  IF IsImageMime(mimeType) /\ ~parsed.ok
                THEN /\ Settle(CreateFileError(parsed.message))
                     /\ UNCHANGED <<locals, fsops>>
                ELSE IF IsImageMime(mimeType)
                THEN /\ locals' = l
                     /\ fsops' = Append(fsops,
                            [op |-> "sharp.resize", path |-> locals.filePath,
                             width |-> parsed.width, height |-> parsed.height])
                     /\ pc' = "create:resize"
                     /\ UNCHANGED result
                ELSE /\ locals' = l
                     /\ fsops' = Append(fsops,
                            [op |-> "readFile", path |-> locals.filePath])
                     /\ pc' = "create:read"
                     /\ UNCHANGED result
    /\ UNCHANGED <<Env, args, reqs, resps>>

\* await stat(filePath) settles: the MIME type, the size parsing, and the
\* start of the resize (image) or of the read (video).  Lines 248-295.
CreateAfterStat(exists) ==
    /\ pc = "create:stat"
    /\ IF ~exists
       THEN /\ Settle(CreateFileError(<<"ENOENT: no such file or directory">>))
            /\ UNCHANGED <<locals, fsops>>
       ELSE LET filename == basename(locals.filePath)
                mimeType == mimeTypeOf(filename)
                parsed == parseSize(locals.finalSize)
                l == locals @@ [filename |-> filename, mimeType |-> mimeType]
            IN  IF ~parsed.ok
                THEN /\ Settle(CreateFileError(parsed.message))
                     /\ UNCHANGED <<locals, fsops>>
                ELSE IF IsImageMime(mimeType)
                THEN /\ locals' = l
                     /\ fsops' = Append(fsops,
                            [op |-> "sharp.resize", path |-> locals.filePath,
                             width |-> parsed.width, height |-> parsed.height])
                     /\ pc' = "create:resize"
                     /\ UNCHANGED result
                ELSE /\ locals' = l
                     /\ fsops' = Append(fsops,
                            [op |-> "readFile", path |-> locals.filePath])
                     /\ pc' = "create:read"
                     /\ UNCHANGED result
    /\ UNCHANGED <<Env, args, reqs, resps>>

\* formData.append('input_reference', fileBlob, filename), then the fetch.
CreateAttach(blob) ==
    LET l == [locals EXCEPT !.formData.input_reference = Some(blob)]
    IN  /\ locals' = l
        /\ reqs' = Append(reqs, CreateRequest(l))
        /\ pc' = "create:fetch"
        /\ UNCHANGED <<fsops, result>>

\* await sharp(filePath).resize(...).toBuffer() settles.
CreateAfterResize(ok) ==
    /\ pc = "create:resize"
    /\ IF ~ok
       THEN /\ Settle(CreateFileError(<<"Input file contains unsupported image format">>))
            /\ UNCHANGED <<locals, reqs, fsops>>
       ELSE CreateAttach([content |-> "resized", of |-> locals.filePath,
                          width |-> fsops[Len(fsops)].width,
                          height |-> fsops[Len(fsops)].height,
                          type |-> locals.mimeType,
                          filename |-> locals.filename])
    /\ UNCHANGED <<Env, args, resps>>

\* await readFile(filePath) settles.
CreateAfterRead(ok) ==
    /\ pc = "create:read"
    /\ IF ~ok
       THEN /\ Settle(CreateFileError(<<"EISDIR: illegal operation on a directory, read">>))
            /\ UNCHANGED <<locals, reqs, fsops>>
       ELSE CreateAttach([content |-> "unchanged", of |-> locals.filePath,
                          type |-> locals.mimeType,
                          filename |-> locals.filename])
    /\ UNCHANGED <<Env, args, resps>>

\* await fetch(...) settles: lines 310-325, and the catch of 326-337.
CreateAfterFetch(resp) ==
    /\ pc = "create:fetch"
    /\ resps' = Append(resps, resp)
    /\ Settle(tryCatch("Error creating video: ", rawJsonResult(resp)))
    /\ UNCHANGED <<Env, args, locals, reqs, fsops>>

(***************************************************************************)
(* Tools 2-4: remix-video, get-video-status, list-videos (lines 352-502).  *)
(* One request each; the response is returned as it is.                    *)
(***************************************************************************)
\* The head of a handler whose first await is its fetch: getApiKey, then
\* the request.
BeginWithFetch(a, prefix, method, url, body, next) ==
    LET key == getApiKey(envKey)
    IN  /\ fsops' = <<>>
        /\ IF ~key.ok
           THEN /\ Begin(a, NoLocals)
                /\ reqs' = <<>>
                /\ Settle(tryCatch(prefix, Throw(key.message)))
           ELSE /\ Begin(a, [apiKey |-> key.value])
                /\ reqs' = <<Request(method, url, key.value, body)>>
                /\ pc' = next
                /\ result' = None
        /\ UNCHANGED Env

\* A tail that sends the request once more when the first try fails.
EndWithFetchRetry(resp, out) ==
    /\ resps' = Append(resps, resp)
    /\ IF Len(reqs) = 1 /\ (resp.kind = "reject" \/ ~ResponseOk(resp))
       THEN /\ reqs' = Append(reqs, reqs[1])
            /\ UNCHANGED <<pc, result>>
       ELSE /\ Settle(out)
            /\ UNCHANGED reqs
    /\ UNCHANGED <<Env, args, locals, fsops>>

\* The tail of such a handler: the fetch settles and the handler returns.
EndWithFetch(resp, out) ==
    /\ resps' = Append(resps, resp)
    /\ Settle(out)
    /\ UNCHANGED <<Env, args, locals, reqs, fsops>>

Prompts == {"a cat"}

RemixArgs == [tool : {"remix-video"}, video_id : VideoIds, prompt : Prompts]

\* fetch(`${SORA_API_BASE}/videos/${video_id}/remix`, POST, JSON { prompt })
RemixBegin(a) ==
    BeginWithFetch(a, "Error remixing video: ", "POST",
                   <<SORA_API_BASE, "/videos/", a.video_id, "/remix">>,
                   Some([prompt |-> a.prompt]), "remix:fetch")

remixResult(resp) == tryCatch("Error remixing video: ", rawJsonResult(resp))

StatusArgs == [tool : {"get-video-status"}, video_id : VideoIds]

\* fetch(`${SORA_API_BASE}/videos/${video_id}`, GET)
StatusBegin(a) ==
    BeginWithFetch(a, "Error getting video status: ", "GET",
                   <<SORA_API_BASE, "/videos/", a.video_id>>, None,
                   "status:fetch")

statusResult(resp) ==
    tryCatch("Error getting video status: ", rawJsonResult(resp))

ListArgs ==
    [tool : {"list-videos"}, limit : {None, Some(5)},
     after : {None, Some(""), Some("vid_1")}, order : {None, Some("asc")}]

\* limit, then after when it is truthy, then order.
ListParams(a) ==
    <<"limit=", ToString(Default(a.limit, 20))>>
        \o (IF TruthyStr(a.after) THEN <<"&after=", a.after[1]>> ELSE <<>>)
        \o <<"&order=", Default(a.order, "desc")>>

ListBegin(a) ==
    BeginWithFetch(a, "Error listing videos: ", "GET",
                   <<SORA_API_BASE, "/videos?">> \o ListParams(a), None,
                   "list:fetch")

listResult(resp) == tryCatch("Error listing videos: ", rawJsonResult(resp))

(***************************************************************************)
(* The status check that download-video and save-video begin with.         *)
(***************************************************************************)
\* await statusResponse.json() as { status }: the status read from the
\* response (optional: the object may have none), or what is thrown.
readStatus(resp) ==
    IF resp.kind = "reject" THEN Throw(resp.message)
    ELSE IF ~ResponseOk(resp) THEN Throw(apiError("Sora API error: ", resp))
    ELSE IF resp.body.json = "invalid"
    THEN Throw(<<"Unexpected token in JSON">>)
    ELSE IF resp.body.json = "null"
    THEN Throw(<<"Cannot read properties of null (reading 'status')">>)
    ELSE [k |-> "status",
          status |-> IF "status" \in DOMAIN resp.body.fields
                     THEN Some(resp.body.fields.status) ELSE None]

\* `${statusData.status}` in a template literal.
StatusPiece(st) == IF Present(st) THEN st[1] ELSE "undefined"

\* { status: statusData.status }: the property is undefined when the remote
\* object has no status.
StatusField(st) == IF Present(st) THEN [status |-> st[1]] ELSE <<>>

(***************************************************************************)
(* Tool 5: download-video (lines 515-587).                                 *)
(***************************************************************************)
DownloadArgs ==
    [tool : {"download-video"}, video_id : VideoIds,
     variant : {None, Some(""), Some("thumbnail")}]

DownloadBegin(a) ==
    BeginWithFetch(a, "Error preparing video download: ", "GET",
                   <<SORA_API_BASE, "/videos/", a.video_id>>, None,
                   "download:fetch")

\* `curl -H "Authorization: Bearer ${apiKey}" "${downloadUrl}" -o "${video_id}.mp4"`
curlCommand(a, apiKey) ==
    LET params == IF TruthyStr(a.variant) THEN <<"?variant=", a.variant[1]>>
                  ELSE <<>>
        downloadUrl == <<SORA_API_BASE, "/videos/", a.video_id, "/content">>
                           \o params
    IN  <<"curl -H \"Authorization: Bearer ", apiKey, "\" \"">>
            \o downloadUrl \o <<"\" -o \"", a.video_id, ".mp4\"">>

\* A handler that gives the command whatever the status is.
downloadResultAlways(a, apiKey, resp) ==
    LET st == readStatus(resp)
    IN  IF st.k = "throw" THEN tryCatch("Error preparing video download: ", st)
        ELSE LET cmd == curlCommand(a, apiKey)
                 output == [video_id |-> a.video_id, status |-> "completed",
                            message |-> <<"Video is ready for download!">>,
                            download_instructions |-> "Use the curl command.",
                            curl_command |-> cmd]
             IN  Ret(SuccessEnvelope(PlainText(cmd), output))

downloadResult(a, apiKey, resp) ==
    LET st == readStatus(resp)
    IN  IF st.k = "throw" THEN tryCatch("Error preparing video download: ", st)
        ELSE IF st.status # Some("completed")
        THEN LET output ==
                     StatusField(st.status) @@
                     [video_id |-> a.video_id,
                      message |-> <<"Video is not ready yet. Current status: ",
                                    StatusPiece(st.status)>>,
                      download_instructions |->
                          "Video is not ready for download yet.",
                      curl_command |-> <<>>]
             IN  Ret(SuccessEnvelope(JsonText(output), output))
        ELSE LET cmd == curlCommand(a, apiKey)
                 output ==
                     [video_id |-> a.video_id,
                      status |-> "completed",
                      message |-> <<"Video is ready for download! Use the curl command below to download it.">>,
                      download_instructions |->
                          "The video requires authentication. Use the provided curl command or add Authorization header with your API key.",
                      curl_command |-> cmd]
             IN  Ret(SuccessEnvelope(
                     PlainText(<<"Video ", a.video_id,
                                 " is ready for download!\n\nTo download the video, run this command in your terminal:\n\n">>
                               \o cmd
                               \o <<"\n\nThis will save the video as \"",
                                    a.video_id,
                                    ".mp4\" in your current directory.">>),
                     output))

(***************************************************************************)
(* Tool 6: save-video (lines 602-694).                                     *)
(***************************************************************************)
SaveArgs ==
    [tool : {"save-video"}, video_id : VideoIds,
     output_path : {None, Some(<<>>), Some(<<"o", "u", "t">>)},
     filename : {None, Some(""), Some("clip.mp4")}]

SaveBegin(a) ==
    BeginWithFetch(a, "Error saving video: ", "GET",
                   <<SORA_API_BASE, "/videos/", a.video_id>>, None,
                   "save:status")

\* output_path ? resolve(output_path) : getDownloadDir()
saveDirOf(a, dir) ==
    IF TruthyChars(a.output_path) THEN resolve(a.output_path[1])
    ELSE getDownloadDir(dir)

\* filename || `${video_id}.mp4`
saveFilenameOf(a) ==
    IF TruthyStr(a.filename) THEN <<a.filename[1]>>
    ELSE <<a.video_id, ".mp4">>

\* join(saveDir, saveFilename)
join(dir, name) == dir \o <<"/">> \o name

\* A handler that fetches the content whatever the status is.
SaveAfterStatusAlways(resp) ==
    /\ resps' = Append(resps, resp)
    /\ LET st == readStatus(resp)
       IN  IF st.k = "throw"
           THEN /\ Settle(tryCatch("Error saving video: ", st))
                /\ UNCHANGED reqs
           ELSE /\ reqs' = Append(reqs,
                        Request("GET",
                                <<SORA_API_BASE, "/videos/", args.video_id,
                                  "/content">>,
                                locals.apiKey, None))
                /\ pc' = "save:content"
                /\ UNCHANGED result
    /\ UNCHANGED <<Env, args, locals, fsops>>

\* The status fetch settles (lines 613-645): an error, the "not ready"
\* result, or the fetch of the content.
SaveAfterStatus(resp) ==
    /\ resps' = Append(resps, resp)
    /\ LET st == readStatus(resp)
       IN  IF st.k = "throw"
           THEN /\ Settle(tryCatch("Error saving video: ", st))
                /\ UNCHANGED reqs
           ELSE IF st.status # Some("completed")
           THEN LET output ==
                        StatusField(st.status) @@
                        [video_id |-> args.video_id,
                         file_path |-> <<>>,
                         message |->
                             <<"Video is not ready yet. Current status: ",
                               StatusPiece(st.status)>>]
                IN  /\ Settle(Ret(SuccessEnvelope(JsonText(output), output)))
                    /\ UNCHANGED reqs
           ELSE /\ reqs' = Append(reqs,
                        Request("GET",
                                <<SORA_API_BASE, "/videos/", args.video_id,
                                  "/content">>,
                                locals.apiKey, None))
                /\ pc' = "save:content"
                /\ UNCHANGED result
    /\ UNCHANGED <<Env, args, locals, fsops>>

\* A handler that goes on to save whatever the status of the content
\* response is.
SaveAfterContentNoCheck(resp) ==
    /\ resps' = Append(resps, resp)
    /\ IF resp.kind = "reject"
       THEN /\ Settle(tryCatch("Error saving video: ", Throw(resp.message)))
            /\ UNCHANGED <<locals, fsops>>
       ELSE LET saveDir == saveDirOf(args, envDir)
                fullPath == join(saveDir, saveFilenameOf(args))
            IN  /\ locals' = locals @@ [videoBuffer |-> resp.body.bytes,
                                        saveDir |-> saveDir,
                                        fullPath |-> fullPath]
                /\ fsops' = Append(fsops, [op |-> "mkdir", path |-> saveDir])
                /\ pc' = "save:mkdir"
                /\ UNCHANGED result
    /\ UNCHANGED <<Env, args, reqs>>

\* The content fetch settles (lines 647-661): an error, or the buffer, the
\* save path, and the start of mkdir(saveDir, { recursive: true }).
SaveAfterContent(resp) ==
    /\ resps' = Append(resps, resp)
    /\ IF resp.kind = "reject"
       THEN /\ Settle(tryCatch("Error saving video: ", Throw(resp.message)))
            /\ UNCHANGED <<locals, fsops>>
       ELSE IF ~ResponseOk(resp)
       THEN /\ Settle(tryCatch("Error saving video: ",
                   Throw(apiError("Failed to download video: ", resp))))
            /\ UNCHANGED <<locals, fsops>>
       ELSE LET saveDir == saveDirOf(args, envDir)
                fullPath == join(saveDir, saveFilenameOf(args))
            IN  /\ locals' = locals @@ [videoBuffer |-> resp.body.bytes,
                                        saveDir |-> saveDir,
                                        fullPath |-> fullPath]
                /\ fsops' = Append(fsops, [op |-> "mkdir", path |-> saveDir])
                /\ pc' = "save:mkdir"
                /\ UNCHANGED result
    /\ UNCHANGED <<Env, args, reqs>>

\* mkdir settles (lines 661-664): an error, or the start of writeFile.
SaveAfterMkdir(ok) ==
    /\ IF ~ok
       THEN /\ Settle(tryCatch("Error saving video: ",
                               Throw(<<"EACCES: permission denied, mkdir">>)))
            /\ UNCHANGED fsops
       ELSE /\ fsops' = Append(fsops,
                   [op |-> "writeFile", path |-> locals.fullPath,
                    data |-> locals.videoBuffer])
            /\ pc' = "save:write"
            /\ UNCHANGED result
    /\ UNCHANGED <<Env, args, locals, reqs, resps>>

\* writeFile settles (lines 664-681): an error, or the "saved" result.
SaveAfterWrite(ok) ==
    /\ IF ~ok
       THEN Settle(tryCatch("Error saving video: ",
                            Throw(<<"ENOSPC: no space left on device, write">>)))
       ELSE LET output ==
                    [video_id |-> args.video_id,
                     status |-> "saved",
                     file_path |-> locals.fullPath,
                     message |-> <<"Video saved successfully to ">>
                                     \o locals.fullPath]
            IN  Settle(Ret(SuccessEnvelope(
                    PlainText(<<"Video downloaded successfully!\n\nSaved to: ">>
                              \o locals.fullPath
                              \o <<"\n\nYou can now open and watch your video!">>),
                    output)))
    /\ UNCHANGED <<Env, args, locals, reqs, resps, fsops>>

(***************************************************************************)
(* Tool 7: delete-video (lines 707-752).                                   *)
(***************************************************************************)
DeleteArgs == [tool : {"delete-video"}, video_id : VideoIds]

DeleteBegin(a) ==
    BeginWithFetch(a, "Error deleting video: ", "DELETE",
                   <<SORA_API_BASE, "/videos/", a.video_id>>, None,
                   "delete:fetch")

\* { id: video_id, deleted: true, message: `...`, ...data }: a field of the
\* remote object replaces the handler's field of the same name.
deleteResult(a, resp) ==
    IF resp.kind = "reject"
    THEN tryCatch("Error deleting video: ", Throw(resp.message))
    ELSE IF ~ResponseOk(resp)
    THEN tryCatch("Error deleting video: ",
                  Throw(apiError("Sora API error: ", resp)))
    ELSE IF resp.body.json = "invalid"
    THEN tryCatch("Error deleting video: ",
                  Throw(<<"Unexpected token in JSON">>))
    ELSE LET own == [id |-> a.video_id, deleted |-> TRUE,
                     message |-> <<"Successfully deleted video ", a.video_id>>]
             output == IF resp.body.json = "null" THEN own
                       ELSE resp.body.fields @@ own
         IN  Ret(SuccessEnvelope(JsonText(output), output))

CallCreateVideo == CanCall /\ \E a \in CreateArgs : CreateVideoBegin(a)

CreateStatDone ==
    pc = "create:stat" /\ \E exists \in BOOLEAN : CreateAfterStat(exists)

CreateResizeDone ==
    pc = "create:resize" /\ \E ok \in BOOLEAN : CreateAfterResize(ok)

CreateReadDone ==
    pc = "create:read" /\ \E ok \in BOOLEAN : CreateAfterRead(ok)

CreateFetchDone ==
    pc = "create:fetch" /\ \E resp \in Responses : CreateAfterFetch(resp)

CallRemixVideo == CanCall /\ \E a \in RemixArgs : RemixBegin(a)

RemixFetchDone ==
    /\ pc = "remix:fetch"
    /\ \E resp \in Responses : EndWithFetch(resp, remixResult(resp))

CallGetVideoStatus == CanCall /\ \E a \in StatusArgs : StatusBegin(a)

StatusFetchDone ==
    /\ pc = "status:fetch"
    /\ \E resp \in Responses : EndWithFetch(resp, statusResult(resp))

CallListVideos == CanCall /\ \E a \in ListArgs : ListBegin(a)

ListFetchDone ==
    /\ pc = "list:fetch"
    /\ \E resp \in Responses : EndWithFetch(resp, listResult(resp))

CallDownloadVideo == CanCall /\ \E a \in DownloadArgs : DownloadBegin(a)

DownloadFetchDone ==
    /\ pc = "download:fetch"
    /\ \E resp \in Responses :
           EndWithFetch(resp, downloadResult(args, locals.apiKey, resp))

CallSaveVideo == CanCall /\ \E a \in SaveArgs : SaveBegin(a)

SaveStatusDone ==
    pc = "save:status" /\ \E resp \in Responses : SaveAfterStatus(resp)

SaveContentDone ==
    pc = "save:content" /\ \E resp \in Responses : SaveAfterContent(resp)

SaveMkdirDone == pc = "save:mkdir" /\ \E ok \in BOOLEAN : SaveAfterMkdir(ok)

SaveWriteDone == pc = "save:write" /\ \E ok \in BOOLEAN : SaveAfterWrite(ok)

CallDeleteVideo == CanCall /\ \E a \in DeleteArgs : DeleteBegin(a)

DeleteFetchDone ==
    /\ pc = "delete:fetch"
    /\ \E resp \in Responses : EndWithFetch(resp, deleteResult(args, resp))

Next ==
    \/ createServer
    \/ Return
    \/ CallCreateVideo
    \/ CreateStatDone
    \/ CreateResizeDone
    \/ CreateReadDone
    \/ CreateFetchDone
    \/ CallRemixVideo
    \/ RemixFetchDone
    \/ CallGetVideoStatus
    \/ StatusFetchDone
    \/ CallListVideos
    \/ ListFetchDone
    \/ CallDownloadVideo
    \/ DownloadFetchDone
    \/ CallSaveVideo
    \/ SaveStatusDone
    \/ SaveContentDone
    \/ SaveMkdirDone
    \/ SaveWriteDone
    \/ CallDeleteVideo
    \/ DeleteFetchDone

Spec == Init /\ [][Next]_vars

(***************************************************************************)
(* The tools as a unit: registerTools is exported by tools/index.ts and    *)
(* reads the key again in every handler (getApiKey).  Besides the start    *)
(* through createServer, the tools may be registered on a server that a    *)
(* caller built itself, with the key unset, empty or set.                  *)
(***************************************************************************)
InitTools ==
    /\ proc \in {"starting", "running"}
    /\ envKey \in {None, Some(""), Some("sk-test")}
    /\ envDir \in {None, Some("/data/videos")}
    /\ args = NoArgs
    /\ locals = NoLocals
    /\ pc = "idle"
    /\ reqs = <<>>
    /\ resps = <<>>
    /\ fsops = <<>>
    /\ result = None
    /\ sdk = "captured"
    /\ serverTransport = 0
    /\ http = [r \in HttpIds |-> NewHttp]
    /\ delivered = [r \in HttpIds |-> <<>>]

SpecTools == InitTools /\ [][Next]_vars

(***************************************************************************)
(* The HTTP entry point (server.ts): one McpServer for the process, and    *)
(* for every POST /mcp a new transport that the server is connected to.    *)
(*                                                                         *)
(* server.connect and transport.close are the SDK's.  The server keeps one *)
(* transport: connect binds it, and the close of a connected transport     *)
(* unbinds it.  How a handler's result finds its transport depends on the  *)
(* SDK the build installs:                                                 *)
(*   "captured": on the transport that was bound when the request came;    *)
(*   "current":  on the transport that is bound when the handler returns;  *)
(*   "refuse":   as "captured", and connect throws while a transport is    *)
(*               bound.                                                    *)
(***************************************************************************)
SdkBuilds == {"captured", "current", "refuse"}

RpcIds == {1, 2}

\* The responses of the remote service tried under the HTTP entry point.
HttpResponses ==
    {FetchRejected,
     [kind |-> "response", status |-> 200, body |-> JobBody("completed")],
     [kind |-> "response", status |-> 404, body |-> TextBody]}

InitHttp == InitProcess /\ sdk \in SdkBuilds

\* app.post('/mcp', ...) runs for request r, a get-video-status call: the
\* transport is made, the server is connected to it, and handleRequest
\* passes the message to the server, whose handler runs up to its fetch.
\* Nothing else runs in between: the awaits before the fetch are settled
\* promises.  When connect throws, the async route handler is rejected and
\* nothing answers the request.
HttpPost(r, id, vid) ==
    /\ proc = "running"
    /\ http[r].pc = "new"
    /\ IF sdk = "refuse" /\ serverTransport # 0
       THEN /\ http' = [http EXCEPT ![r] =
                   [pc |-> "rejected", open |-> TRUE, connected |-> FALSE,
                    rpcId |-> id, video_id |-> vid]]
            /\ UNCHANGED serverTransport
       ELSE /\ http' = [http EXCEPT ![r] =
                   [pc |-> "fetch", open |-> TRUE, connected |-> TRUE,
                    rpcId |-> id, video_id |-> vid]]
            /\ serverTransport' = r
    /\ UNCHANGED <<proc, envKey, envDir, toolVars, sdk, delivered>>

\* A transport accepts a response for a request id it is waiting on, while
\* it is open and has not answered yet.
Accepts(t, id) ==
    /\ t # 0
    /\ http[t].pc \in {"fetch", "returned"}
    /\ http[t].open
    /\ http[t].rpcId = id
    /\ delivered[t] = <<>>

\* The transport a result of request r is sent on.
RouteOf(r) == IF sdk = "current" THEN serverTransport ELSE r

\* The fetch of request r settles, the handler returns, and the server sends
\* the result; the transport that accepts it writes it to its response.
HttpHandlerReturns(r, resp) ==
    /\ http[r].pc = "fetch"
    /\ LET out == statusResult(resp)
           t == RouteOf(r)
       IN  /\ http' = [http EXCEPT ![r].pc = "returned"]
           /\ IF Accepts(t, http[r].rpcId)
              THEN delivered' = [delivered EXCEPT ![t] =
                       <<[of |-> r, video_id |-> http[r].video_id,
                          out |-> out]>>]
              ELSE UNCHANGED delivered
    /\ UNCHANGED <<proc, envKey, envDir, toolVars, sdk, serverTransport>>

\* res.on('close', () => transport.close()): the response has ended or the
\* client has gone.  The close of a connected transport unbinds the server.
HttpClose(r) ==
    /\ http[r].pc # "new"
    /\ http[r].open
    /\ http' = [http EXCEPT ![r].open = FALSE]
    /\ serverTransport' = IF http[r].connected THEN 0 ELSE serverTransport
    /\ UNCHANGED <<proc, envKey, envDir, toolVars, sdk, delivered>>

HttpPostArrives ==
    \E r \in HttpIds, id \in RpcIds, vid \in VideoIds : HttpPost(r, id, vid)

HttpFetchDone ==
    \E r \in HttpIds, resp \in HttpResponses : HttpHandlerReturns(r, resp)

HttpResponseCloses == \E r \in HttpIds : HttpClose(r)

NextHttp ==
    \/ createServer
    \/ HttpPostArrives
    \/ HttpFetchDone
    \/ HttpResponseCloses

SpecHttp == InitHttp /\ [][NextHttp]_vars

(***************************************************************************)
(* Properties.                                                             *)
(***************************************************************************)
Settled == pc = "done" /\ Present(result)

Returned == Settled /\ result[1].k = "return"

Envelope == result[1].envelope

IsErrorEnvelope(env) ==
    /\ "isError" \in DOMAIN env
    /\ env.isError = TRUE
    /\ Len(env.content) = 1

IsSuccessEnvelope(env) ==
    /\ "isError" \notin DOMAIN env
    /\ "structuredContent" \in DOMAIN env

\* The text of the envelope's one block contains the piece.
TextContains(env, piece) == piece \in Range(env.content[1].text.template)

IsContentUrl(url) == url[Len(url)] = "/content"

NonOk(resp) == resp.kind = "response" /\ ~(resp.status \in 200..299)

\* C1: in each of the seven tools, and for each request the tool makes, a
\* response with a non-2xx status makes the handler return an error envelope
\* whose text holds the status code and the body text; and the handler's
\* promise is never rejected.
C1_NonOkGivesErrorEnvelope ==
    /\ pc = "done" => Returned
    /\ \A i \in 1..Len(resps) :
          NonOk(resps[i]) =>
              /\ Returned
              /\ IsErrorEnvelope(Envelope)
              /\ TextContains(Envelope, ToString(resps[i].status))
              /\ \A piece \in Range(resps[i].body.text) :
                    TextContains(Envelope, piece)

\* save-video has returned after its second request, the content GET, was
\* answered 404.
C1_Witness ==
    /\ args.tool = "save-video"
    /\ Len(resps) = 2
    /\ NonOk(resps[2]) /\ resps[2].status = 404
    /\ Returned
    /\ IsErrorEnvelope(Envelope)

HasRemoteStatus(resp) ==
    /\ resp.kind = "response"
    /\ resp.status \in 200..299
    /\ resp.body.json = "object"
    /\ "status" \in DOMAIN resp.body.fields

\* C2: when the status request of save-video succeeds with a status other
\* than "completed", the result's structuredContent has that status and an
\* empty file_path, no request goes to /videos/{id}/content, and no
\* directory is created and no file written.
C2_SaveNotReady ==
    (/\ args.tool = "save-video"
     /\ Len(resps) >= 1
     /\ HasRemoteStatus(resps[1])
     /\ resps[1].body.fields.status # "completed")
        => /\ Returned
           /\ IsSuccessEnvelope(Envelope)
           /\ Envelope.structuredContent.status = resps[1].body.fields.status
           /\ Envelope.structuredContent.file_path = <<>>
           /\ Len(reqs) = 1
           /\ ~IsContentUrl(reqs[1].url)
           /\ fsops = <<>>

C2_Witness ==
    /\ args.tool = "save-video"
    /\ Len(resps) = 1
    /\ HasRemoteStatus(resps[1])
    /\ resps[1].body.fields.status = "in_progress"
    /\ Returned
    /\ Envelope.structuredContent.file_path = <<>>

\* The sizes of the two orientations, as the claims state them.
Size720x1280 == <<"7", "2", "0", "x", "1", "2", "8", "0">>

Size1280x720 == <<"1", "2", "8", "0", "x", "7", "2", "0">>

FixedMapping(o) == IF o = "vertical" THEN Size720x1280 ELSE Size1280x720

\* The create-video handler has resolved the size.
Resolved == args.tool = "create-video" /\ "finalSize" \in DOMAIN locals

\* C4: with an orientation, whatever the custom size is, the resolver gives
\* the orientation's fixed size, and the size field of the create-video
\* request is that size.
C4_OrientationWins ==
    (Resolved /\ Present(args.orientation))
        => /\ locals.finalSize = FixedMapping(args.orientation[1])
           /\ \A i \in 1..Len(reqs) :
                 reqs[i].body[1].size = FixedMapping(args.orientation[1])

\* A landscape call with a custom size of its own has sent its request.
C4_Witness ==
    /\ Resolved
    /\ args.orientation = Some("landscape")
    /\ args.size = Some(<<"2", "x", "2">>)
    /\ Len(reqs) = 1
    /\ reqs[1].body[1].size = Size1280x720

\* C8: download-video makes one request, the status GET, and none to the
\* content endpoint; with status "completed" the curl_command holds the
\* video id and the bearer credential, with any other status it is empty.
C8_DownloadInstructionsOnly ==
    (args.tool = "download-video" /\ pc # "idle")
        => /\ Len(reqs) = 1
           /\ reqs[1].method = "GET"
           /\ reqs[1].url = <<"https://api.openai.com/v1", "/videos/",
                              args.video_id>>
           /\ (Len(resps) = 1 /\ HasRemoteStatus(resps[1]))
                 => /\ Returned
                    /\ IsSuccessEnvelope(Envelope)
                    /\ IF resps[1].body.fields.status = "completed"
                       THEN /\ args.video_id \in
                                   Range(Envelope.structuredContent.curl_command)
                            /\ envKey[1] \in
                                   Range(Envelope.structuredContent.curl_command)
                       ELSE Envelope.structuredContent.curl_command = <<>>

C8_Witness ==
    /\ args.tool = "download-video"
    /\ args.video_id = "vid_2"
    /\ Returned
    /\ HasRemoteStatus(resps[1])
    /\ resps[1].body.fields.status = "completed"
    /\ "vid_2" \in Range(Envelope.structuredContent.curl_command)
    /\ "sk-test" \in Range(Envelope.structuredContent.curl_command)
    /\ Len(reqs) = 1

OkObject(resp) ==
    /\ resp.kind = "response"
    /\ resp.status \in 200..299
    /\ resp.body.json = "object"

\* C3: when the DELETE is answered 2xx with a JSON object, the result's
\* structuredContent has deleted: true beside the fields of the remote
\* object, also when the remote object has a field named deleted, id or
\* message.
C3_DeleteReportsDeleted ==
    (/\ args.tool = "delete-video"
     /\ Len(resps) = 1
     /\ OkObject(resps[1]))
        => /\ Returned
           /\ IsSuccessEnvelope(Envelope)
           /\ Envelope.structuredContent.deleted = TRUE
           /\ \A f \in DOMAIN resps[1].body.fields \ {"deleted"} :
                 /\ f \in DOMAIN Envelope.structuredContent
                 /\ Envelope.structuredContent[f] = resps[1].body.fields[f]

\* C5 as stated: without an orientation the resolver gives the custom size
\* as it is whenever one is present, the empty string included, and
\* 720x1280 only when none is present.
C5_CustomSizeVerbatim ==
    (Resolved /\ ~Present(args.orientation))
        => IF Present(args.size)
           THEN locals.finalSize = args.size[1]
           ELSE locals.finalSize = Size720x1280

\* C5 as amended: without an orientation the resolver gives a custom size
\* that is not the empty string as it is, malformed or not, and gives
\* 720x1280 when the custom size is absent or the empty string; it resolves
\* a size in every call.
C5_NonEmptyCustomSizeVerbatim ==
    /\ (args.tool = "create-video" /\ pc # "idle" /\ TruthyStr(envKey))
          => "finalSize" \in DOMAIN locals
    /\ (Resolved /\ ~Present(args.orientation))
          => IF Present(args.size) /\ args.size[1] # <<>>
             THEN locals.finalSize = args.size[1]
             ELSE locals.finalSize = Size720x1280

\* Calls without an orientation: one whose size is the malformed "x.",
\* which is sent as it is, and (in another state) one whose size is the
\* empty string.
C5_Witness ==
    /\ Resolved
    /\ ~Present(args.orientation)
    /\ \/ /\ args.size = Some(<<"x", ".">>)
          /\ Len(reqs) = 1
          /\ reqs[1].body[1].size = <<"x", ".">>
       \/ /\ args.size = Some(<<>>)
          /\ Len(reqs) = 1
          /\ reqs[1].body[1].size = Size720x1280

\* A token of a size string that is a positive integer: digits only, not
\* all of them zero.
PositiveIntegerToken(t) ==
    /\ t # <<>>
    /\ \A k \in 1..Len(t) : t[k] \in {"0", "1", "2", "3", "4", "5", "6", "7", "8", "9"}
    /\ \E k \in 1..Len(t) : t[k] # "0"

CountOf(s, c) == Cardinality({k \in 1..Len(s) : s[k] = c})

\* Exactly two positive integer tokens separated by one 'x'.
ConformingSize(z) ==
    /\ CountOf(z, "x") = 1
    /\ LET at == CHOOSE k \in 1..Len(z) : z[k] = "x"
       IN  /\ PositiveIntegerToken(SubSeq(z, 1, at - 1))
           /\ PositiveIntegerToken(SubSeq(z, at + 1, Len(z)))

HasReference == args.tool = "create-video" /\ TruthyChars(args.input_reference)

IsSizeError(env) ==
    /\ IsErrorEnvelope(env)
    /\ \/ TextContains(env, "Invalid size format: ")
       \/ TextContains(env, "Invalid size dimensions: ")

\* C6: in create-video with a reference file, a resolved size that is not
\* two positive integer tokens separated by one 'x' makes the preparation
\* fail before any resize is attempted: no resize is started, no request is
\* sent, and once the file is found the call returns the validation error.
C6_NonConformingSizeRejected ==
    (Resolved /\ HasReference /\ ~ConformingSize(locals.finalSize))
        => /\ \A i \in 1..Len(fsops) : fsops[i].op # "sharp.resize"
           /\ reqs = <<>>
           /\ pc \in {"create:stat", "done"}
           /\ pc = "done" => Returned /\ IsErrorEnvelope(Envelope)

\* The last piece of a path, and its extension: what follows its last dot,
\* in lower case; a name without a dot has none.
LastPiece(path) ==
    LET slashes == {k \in 1..Len(path) : path[k] = "/"}
        from == IF slashes = {} THEN 1
                ELSE 1 + CHOOSE k \in slashes : \A j \in slashes : j <= k
    IN  SubSeq(path, from, Len(path))

Lower(c) ==
    CASE c = "P" -> "p" [] c = "N" -> "n" [] c = "G" -> "g" [] c = "M" -> "m"
      [] c = "O" -> "o" [] c = "V" -> "v" [] OTHER -> c

Extension(name) ==
    LET dots == {k \in 1..Len(name) : name[k] = "."}
    IN  IF dots = {} THEN <<>>
        ELSE LET last == CHOOSE k \in dots : \A j \in dots : j <= k
             IN  [i \in 1..(Len(name) - last) |-> Lower(name[last + i])]

VideoExtensions == {<<"m", "p", "4">>, <<"m", "o", "v">>, <<"w", "e", "b", "m">>}

MimeTable(ext) ==
    CASE ext = <<"p", "n", "g">> -> "image/png"
      [] ext = <<"w", "e", "b", "p">> -> "image/webp"
      [] ext = <<"m", "p", "4">> -> "video/mp4"
      [] ext = <<"m", "o", "v">> -> "video/quicktime"
      [] ext = <<"w", "e", "b", "m">> -> "video/webm"
      [] OTHER -> "image/jpeg"

ReferenceName == LastPiece(args.input_reference[1])

IsVideoReference ==
    HasReference /\ Extension(ReferenceName) \in VideoExtensions

\* C9: the MIME kind of the reference file is the table's entry for its
\* lower-cased extension, image/jpeg for any other extension and for none;
\* so the file is read unresized exactly when the extension is mp4, mov or
\* webm, and resized otherwise.
C9_MimeFromExtension ==
    (args.tool = "create-video" /\ "mimeType" \in DOMAIN locals)
        => /\ locals.mimeType = MimeTable(Extension(ReferenceName))
           /\ \A i \in 1..Len(fsops) :
                 /\ fsops[i].op = "readFile"
                       => Extension(ReferenceName) \in VideoExtensions
                 /\ fsops[i].op = "sharp.resize"
                       => Extension(ReferenceName) \notin VideoExtensions

\* C7 as stated: a create-video call with no reference, or with a video
\* reference, never fails because of the size string.
C7_SizeCheckedOnlyForImages ==
    (args.tool = "create-video" /\ Returned
     /\ (~HasReference \/ IsVideoReference))
        => ~IsSizeError(Envelope)

\* C7 as amended: the size string is validated whenever a reference file is
\* supplied and found, for a video as for an image.  A call with no
\* reference starts no file operation, sends its one request with the
\* resolved size as it is, and never returns a size error; a call with a
\* reference sends its request, if it sends one, with the resolved size as
\* it is; and a call with a video reference whose resolved size does not
\* hold exactly one 'x' reads no file, sends no request, and returns a size
\* error once the file is found.
C7_SizeCheckedForEveryReference ==
    /\ (Resolved /\ ~HasReference)
          => /\ fsops = <<>>
             /\ Len(reqs) = 1
             /\ reqs[1].body[1].size = locals.finalSize
             /\ Returned => ~IsSizeError(Envelope)
    /\ (Resolved /\ HasReference)
          => \A i \in 1..Len(reqs) : reqs[i].body[1].size = locals.finalSize
    /\ (Resolved /\ IsVideoReference /\ CountOf(locals.finalSize, "x") # 1)
          => /\ \A i \in 1..Len(fsops) : fsops[i].op = "stat"
             /\ reqs = <<>>
             /\ pc \in {"create:stat", "done"}
             /\ (Returned /\ ~TextContains(Envelope, "ENOENT: no such file or directory"))
                   => IsSizeError(Envelope)

\* Two calls have returned: one with a.mp4 and the size "2.", refused for
\* its size; or one with no reference and the size "2.", sent as it is and
\* answered.
C7_Witness ==
    /\ Resolved
    /\ ~Present(args.orientation)
    /\ args.size = Some(<<"2", ".">>)
    /\ Returned
    /\ \/ /\ args.input_reference = Some(<<"a", ".", "m", "p", "4">>)
          /\ IsSizeError(Envelope)
       \/ /\ args.input_reference = None
          /\ Len(reqs) = 1
          /\ reqs[1].body[1].size = <<"2", ".">>
          /\ IsSuccessEnvelope(Envelope)

\* C10: two overlapping POST /mcp requests do not touch each other: no
\* request is refused, what is written to a request's response is the
\* result of that request's own call, and a request whose handler returned
\* while its client was still connected has its result on its response.
C10_RequestsIndependent ==
    \A r \in HttpIds :
        /\ http[r].pc # "rejected"
        /\ \A i \in 1..Len(delivered[r]) : delivered[r][i].of = r
        /\ (http[r].pc = "returned" /\ http[r].open) => delivered[r] # <<>>

\* C11: the process ends only in createServer, when the key is missing at
\* the start, and then no tool call has begun or ever begins; with the key
\* createServer lets the server run; no step of any handler, whatever the
\* file system, the size string, the remote service or the image transform
\* answers, ends the process; and a call that finds the key missing returns
\* the error envelope that names the variable, with no request sent and no
\* file touched, and the process runs on.
C11_OnlyMissingKeyAtStartIsFatal ==
    [][/\ proc # "exited"
       /\ proc = "starting"
             => /\ proc' = IF TruthyStr(envKey) THEN "running" ELSE "exited"
                /\ UNCHANGED toolVars
                /\ pc = "idle" /\ args = NoArgs /\ result = None
       /\ proc = "running" => proc' = "running"
       /\ (proc = "running" /\ pc = "idle" /\ ~TruthyStr(envKey))
             => /\ pc' = "done"
                /\ Present(result')
                /\ result'[1].k = "return"
                /\ IsErrorEnvelope(result'[1].envelope)
                /\ TextContains(result'[1].envelope,
                       "OPENAI_API_KEY environment variable is required")
                /\ reqs' = <<>>
                /\ fsops' = <<>>]_vars

\* A save-video call on a running server has found the key missing and has
\* returned its error envelope.
C11_Witness ==
    /\ proc = "running"
    /\ ~TruthyStr(envKey)
    /\ args.tool = "save-video"
    /\ Returned
    /\ IsErrorEnvelope(Envelope)
    /\ TextContains(Envelope, "OPENAI_API_KEY environment variable is required")
    /\ reqs = <<>>

\* The two shapes of an envelope.  A JSON object is modelled by the record
\* of its fields, the JSON value null by JsonNull.
SuccessShape(env) ==
    /\ DOMAIN env = {"content", "structuredContent"}
    /\ Len(env.content) >= 1
    /\ env.structuredContent # JsonNull

ErrorShape(env) ==
    /\ DOMAIN env = {"content", "isError"}
    /\ Len(env.content) >= 1
    /\ env.isError = TRUE

\* The status request of the call was answered 2xx with a JSON object whose
\* status is not "completed".
NotReady ==
    /\ args.tool \in {"download-video", "save-video"}
    /\ Len(resps) >= 1
    /\ OkObject(resps[1])
    /\ ~(HasRemoteStatus(resps[1])
          /\ resps[1].body.fields.status = "completed")

\* C12: every call of every tool settles by returning, never by throwing,
\* and what it returns has one of two shapes: content and a structuredContent
\* object without isError, or content and isError: true without
\* structuredContent; the "not ready" results of download-video and
\* save-video have the first shape.
C12_TwoEnvelopeShapes ==
    pc = "done"
        => /\ Returned
           /\ SuccessShape(Envelope) \/ ErrorShape(Envelope)
           /\ NotReady => SuccessShape(Envelope)

\* The directory and the file name of a save-video call: the output_path
\* made absolute, or the download root (DOWNLOAD_DIR, or Downloads under the
\* home directory) when none is given; the filename, or "{video_id}.mp4"
\* when none is given.
SaveDirectory ==
    IF Present(args.output_path) /\ args.output_path[1] # <<>>
    THEN IF args.output_path[1][1] = "/" THEN args.output_path[1]
         ELSE Cwd \o <<"/">> \o args.output_path[1]
    ELSE IF Present(envDir) THEN envDir
    ELSE <<"/home/user", "/", "Downloads">>

SaveFilename ==
    IF Present(args.filename) /\ args.filename[1] # ""
    THEN args.filename
    ELSE <<args.video_id, ".mp4">>

SavePath == SaveDirectory \o <<"/">> \o SaveFilename

CompletedOk(resp) ==
    /\ HasRemoteStatus(resp)
    /\ resp.body.fields.status = "completed"

\* C13: in one save-video call, the request for the content is sent only
\* when the status request has been answered, 2xx and "completed"; mkdir of
\* the directory is started only when the content request has been answered
\* 2xx; writeFile is started only when that mkdir has settled; and the
\* "saved" result, whose file_path is the directory joined with the file
\* name, is returned only when that writeFile has settled.  No other
\* request and no other file operation is made.
C13_SaveStepsInOrder ==
    [][args'.tool = "save-video"
         => /\ Len(reqs') <= 2 /\ Len(fsops') <= 2
            /\ Len(reqs') >= 1 => ~IsContentUrl(reqs'[1].url)
            /\ (Len(reqs') = 2 /\ Len(reqs) = 1)
                  => /\ pc = "save:status"
                     /\ Len(resps') = 1
                     /\ CompletedOk(resps'[1])
                     /\ IsContentUrl(reqs'[2].url)
                     /\ fsops' = <<>>
            /\ (Len(fsops') = 1 /\ fsops = <<>>)
                  => /\ pc = "save:content"
                     /\ Len(resps') = 2
                     /\ resps'[2].kind = "response"
                     /\ resps'[2].status \in 200..299
                     /\ fsops'[1] = [op |-> "mkdir", path |-> SaveDirectory]
            /\ (Len(fsops') = 2 /\ Len(fsops) = 1)
                  => /\ pc = "save:mkdir"
                     /\ fsops'[1] = fsops[1]
                     /\ fsops'[2].op = "writeFile"
                     /\ fsops'[2].path = SavePath
            /\ (pc' = "done" /\ pc # "done"
                  /\ result'[1].k = "return"
                  /\ IsSuccessEnvelope(result'[1].envelope)
                  /\ "status" \in DOMAIN result'[1].envelope.structuredContent
                  /\ result'[1].envelope.structuredContent.status = "saved")
                  => /\ pc = "save:write"
                     /\ Len(fsops) = 2 /\ fsops' = fsops
                     /\ Len(resps') = 2
                     /\ result'[1].envelope.structuredContent.file_path
                            = SavePath
            /\ (pc = "save:write" /\ pc' = "done"
                  /\ IsSuccessEnvelope(result'[1].envelope))
                  => result'[1].envelope.structuredContent.status = "saved"]_vars

\* A save-video call without output_path and filename has written the file
\* and returned "saved" with the default path.
C13_Witness ==
    /\ args.tool = "save-video"
    /\ args.output_path = None
    /\ args.filename = None
    /\ Returned
    /\ IsSuccessEnvelope(Envelope)
    /\ "status" \in DOMAIN Envelope.structuredContent
    /\ Envelope.structuredContent.status = "saved"
    /\ Envelope.structuredContent.file_path = SavePath
    /\ Len(reqs) = 2
    /\ Len(fsops) = 2

SingleRequestTools ==
    {"create-video", "remix-video", "get-video-status", "list-videos",
     "download-video", "delete-video"}

Endpoint(req) == <<req.method, req.url>>

\* C14: in one call no endpoint is requested twice, whatever the answers
\* are: create, remix, get-status, list, download-video and delete send at
\* most one request; save-video sends at most two, the GET of the job and
\* then the GET of its content; and a request is sent only when the ones
\* before it have been answered.
C14_NoRetry ==
    /\ args.tool \in SingleRequestTools => Len(reqs) <= 1
    /\ args.tool = "save-video"
          => /\ Len(reqs) <= 2
             /\ Len(reqs) >= 1 => ~IsContentUrl(reqs[1].url)
             /\ Len(reqs) = 2 => IsContentUrl(reqs[2].url)
    /\ args.tool = "none" => reqs = <<>>
    /\ \A i, j \in 1..Len(reqs) :
           i # j => Endpoint(reqs[i]) # Endpoint(reqs[j])
    /\ Len(resps) <= Len(reqs)
    /\ Len(reqs) <= Len(resps) + 1
    /\ pc = "done" => Len(resps) = Len(reqs)

Failed(resp) == resp.kind = "reject" \/ NonOk(resp)

\* A save-video call has returned its error after the failure of its second
\* request, the GET of the content, with no third request.
C14_Witness ==
    /\ args.tool = "save-video"
    /\ Returned
    /\ IsErrorEnvelope(Envelope)
    /\ Len(reqs) = 2
    /\ Len(resps) = 2
    /\ Failed(resps[2])

PreparationSteps == {"create:stat", "create:resize", "create:read"}

\* What each step of the preparation fails with: the stat, or the size
\* check that follows it; the resize; the read.
CausesAt(step) ==
    CASE step = "create:stat" ->
             {"ENOENT: no such file or directory", "Invalid size format: ",
              "Invalid size dimensions: "}
      [] step = "create:resize" ->
             {"Input file contains unsupported image format"}
      [] step = "create:read" ->
             {"EISDIR: illegal operation on a directory, read"}

\* The text of an error envelope of create-video that wraps a cause.
WrapsCause(env, causes) ==
    LET t == env.content[1].text.template
    IN  /\ Len(t) >= 3
        /\ t[1] = "Error creating video: "
        /\ t[2] = "Failed to process input_reference file: "
        /\ t[3] \in causes

\* C15: when a step of the preparation of the reference file of create-video
\* fails (the file is not there, the size is refused, the resize fails, the
\* read fails), the call ends there: no request has been sent and none is
\* sent, and the call returns an error envelope whose text is "Failed to
\* process input_reference file: " followed by the message of the failure.
\* The request of a call with a reference is sent only by a step at which
\* the resize or the read succeeded.
C15_PreparationFailureSendsNothing ==
    [][/\ (pc \in PreparationSteps /\ pc' = "done")
             => /\ args.tool = "create-video"
                /\ reqs = <<>> /\ reqs' = <<>>
                /\ resps' = <<>>
                /\ Present(result')
                /\ result'[1].k = "return"
                /\ IsErrorEnvelope(result'[1].envelope)
                /\ WrapsCause(result'[1].envelope, CausesAt(pc))
       /\ (pc \in PreparationSteps /\ pc' # "done")
             => \/ pc = "create:stat" /\ pc' \in {"create:resize", "create:read"}
                                      /\ reqs' = <<>>
                \/ pc # "create:stat" /\ pc' = "create:fetch"
                                      /\ Len(reqs') = 1
                                      /\ Present(reqs'[1].body[1].input_reference)
       /\ (HasReference' /\ reqs = <<>> /\ reqs' # <<>>)
             => pc \in {"create:resize", "create:read"}]_vars

\* The resize of a.png has failed: the call has returned the wrapped error
\* and has sent nothing.
C15_Witness ==
    /\ args.tool = "create-video"
    /\ args.input_reference = Some(<<"a", ".", "p", "n", "g">>)
    /\ Returned
    /\ fsops # <<>>
    /\ fsops[Len(fsops)].op = "sharp.resize"
    /\ reqs = <<>>
    /\ WrapsCause(Envelope, {"Input file contains unsupported image format"})

=============================================================================
